---------------------------- MODULE Spec2Model ----------------------------
(***************************************************************************)
(* Model of the sqlmodel generator (package generator and its three entry  *)
(* points).                                                                *)
(*                                                                         *)
(* Go strings that the code walks rune by rune (table names, column names, *)
(* force-case words, identifiers) are sequences of runes.  A rune is a     *)
(* TLA+ string: an ASCII rune is its one character, a non-ASCII rune is    *)
(* written by its code point ("U+03B9").  Strings the code only compares,  *)
(* lower-cases or prefixes (declared types, host types, driver keys) are   *)
(* TLA+ strings of ASCII characters.                                       *)
(***************************************************************************)
EXTENDS Integers, Sequences, FiniteSets, TLC

VARIABLES
    call,        \* pure-function harness: the call being made (or NoCall)
    ret,         \* pure-function harness: its result (or Pending)
    caller,      \* the program that runs: one of the entry points, or a library caller
    flags,       \* the command line: the values of -t, -tag and -forcecases
    driverName,  \* Generate's driverName argument
    pc,          \* position of the run: "main", "Generate", "loop", "done", and the exits
    options,     \* the options value Generate builds from the flags
    schema,      \* the database: its tables, each with its columns in declared order
    dbName,      \* the database name the fetcher reported
    fetcher,     \* the schemaFetcher implementation selected
    idx,         \* position of the range loop over options.tableNames
    err,         \* the error Generate returns
    fs,          \* the output directory: table name -> file
    fs0,         \* the output directory as it was when the process started
    log          \* one entry per generateTable call, in call order

vars == <<call, ret, caller, flags, driverName, pc, options, schema, dbName,
          fetcher, idx, err, fs, fs0, log>>

runVars == <<caller, flags, driverName, pc, options, schema, dbName, fetcher,
             idx, err, fs, fs0, log>>

-----------------------------------------------------------------------------
(* Bounds of the model. *)

\* longest enumerated raw name, in runes
MaxLen == 3
\* longest enumerated force-case list
MaxForce == 2
\* largest column size enumerated for getType
MaxSize == 2
\* longest explicit table list (-t)
MaxTables == 2

-----------------------------------------------------------------------------
(* Runes and the unicode / strings functions the code calls. *)

LowerLetters == "abcdefghijklmnopqrstuvwxyz"
UpperLetters == "ABCDEFGHIJKLMNOPQRSTUVWXYZ"
DecimalDigits == "0123456789"

\* the runes of an ASCII string
Runes(str) == [i \in 1..Len(str) |-> SubSeq(str, i, i)]

RuneSet(str) == {SubSeq(str, i, i) : i \in 1..Len(str)}

LowerSet == RuneSet(LowerLetters)
UpperSet == RuneSet(UpperLetters)
DigitSet == RuneSet(DecimalDigits)

\* the ASCII case mappings, as functions of the rune
UpperOf ==
    [r \in LowerSet |->
        LET i == CHOOSE k \in 1..Len(LowerLetters) : SubSeq(LowerLetters, k, k) = r
        IN  SubSeq(UpperLetters, i, i)]

LowerOf ==
    [r \in UpperSet |->
        LET i == CHOOSE k \in 1..Len(UpperLetters) : SubSeq(UpperLetters, k, k) = r
        IN  SubSeq(LowerLetters, i, i)]

\* Non-ASCII runes of the model:
\*   U+03B9 GREEK SMALL LETTER IOTA (Ll), U+0399 GREEK CAPITAL LETTER IOTA (Lu),
\*   U+0345 COMBINING GREEK YPOGEGRAMMENI (Mn, case-folds with iota),
\*   U+4E2D CJK ideograph (Lo, no case), U+0663 ARABIC-INDIC DIGIT THREE (Nd),
\*   U+212A KELVIN SIGN (Lu, lower case "k", case-folds with "k" and "K").
IsASCII(r) == Len(r) = 1

IsLetter(r) ==
    \/ r \in LowerSet
    \/ r \in UpperSet
    \/ r \in {"U+03B9", "U+0399", "U+4E2D", "U+212A"}

IsDigit(r) == r \in DigitSet \/ r = "U+0663"

IsUpper(r) == r \in UpperSet \/ r \in {"U+0399", "U+212A"}

ToUpper(r) ==
    IF r \in LowerSet THEN UpperOf[r]
    ELSE IF r \in {"U+03B9", "U+0345"} THEN "U+0399" ELSE r

ToLower(r) ==
    IF r \in UpperSet THEN LowerOf[r]
    ELSE IF r = "U+0399" THEN "U+03B9"
    ELSE IF r = "U+212A" THEN "k" ELSE r

\* unicode.SimpleFold's orbit of a rune
FoldOrbit(r) ==
    IF r \in {"U+03B9", "U+0399", "U+0345"}
    THEN {"U+03B9", "U+0399", "U+0345"}
    ELSE IF r \in {"k", "K", "U+212A"}
    THEN {"k", "K", "U+212A"}
    ELSE {r, ToUpper(r), ToLower(r)}

\* strings.EqualFold on rune sequences
EqualFold(s, t) ==
    /\ Len(s) = Len(t)
    /\ \A i \in 1..Len(s) : t[i] \in FoldOrbit(s[i])

RECURSIVE LowerFrom(_, _)
LowerFrom(str, i) ==
    IF i > Len(str) THEN ""
    ELSE ToLower(SubSeq(str, i, i)) \o LowerFrom(str, i + 1)

\* strings.ToLower on an ASCII string
StringsToLower(str) == LowerFrom(str, 1)

\* strings.HasPrefix
HasPrefix(str, prefix) ==
    Len(str) >= Len(prefix) /\ SubSeq(str, 1, Len(prefix)) = prefix

-----------------------------------------------------------------------------
(* getType *)

NoErr == [kind |-> "nil"]

\* fmt.Errorf("unknown field type %s", fieldDescriptor.Type)
UnknownFieldType(type) == [kind |-> "unknown field type", type |-> type]

\* the switch of getType on the lower-cased declared type; "" is the default case
BaseType(fieldDescriptor) ==
    LET t == StringsToLower(fieldDescriptor.Type) IN
    CASE t = "tinyint" -> "int8"
      [] t = "smallint" -> "int16"
      [] t \in {"int", "mediumint"} -> "int32"
      [] t \in {"bigint", "integer"} -> "int64"
      [] t \in {"float", "double", "decimal", "real"} -> "float64"
      [] t \in {"char", "varchar", "text", "tinytext", "mediumtext", "longtext",
                "enum", "json", "numeric", "character varying"} -> "string"
      [] t \in {"datetime", "date", "time", "timestamp"} -> "time.Time"
      [] t \in {"binary", "varbinary", "blob", "tinyblob", "mediumblob",
                "longblob"} -> "string"
      [] t \in {"geometry", "point", "linestring", "polygon", "multipoint",
                "multilinestring", "multipolygon", "geometrycollection"}
            -> "sqlingo.WellKnownBinary"
      [] t = "bit" -> IF fieldDescriptor.Size = 1 THEN "bool" ELSE "string"
      [] OTHER -> ""

\* faulty variant of applyUnsigned: the prefix test on "int" is left out
applyUnsigned_anyType(fieldDescriptor, goType) ==
    IF fieldDescriptor.Unsigned THEN "u" \o goType ELSE goType

\* the "u" prefix of an unsigned integer type
applyUnsigned(fieldDescriptor, goType) ==
    IF fieldDescriptor.Unsigned /\ HasPrefix(goType, "int")
    THEN "u" \o goType
    ELSE goType

\* the "*" prefix of a nullable column
applyAllowNull(fieldDescriptor, goType) ==
    IF fieldDescriptor.AllowNull THEN "*" \o goType ELSE goType

getType(fieldDescriptor) ==
    LET base == BaseType(fieldDescriptor) IN
    IF base = ""
    THEN [goType |-> "", err |-> UnknownFieldType(fieldDescriptor.Type)]
    ELSE [goType |-> applyAllowNull(fieldDescriptor,
                        applyUnsigned(fieldDescriptor, base)),
          err |-> NoErr]

-----------------------------------------------------------------------------
(* convertToExportedIdentifier *)

\* the first loop: the words of s, each starting with an upper-cased rune
RECURSIVE splitWords(_, _, _, _)
splitWords(s, i, words, nextCharShouldBeUpperCase) ==
    IF i > Len(s) THEN words
    ELSE LET r == s[i] IN
         IF IsLetter(r) \/ IsDigit(r)
         THEN IF nextCharShouldBeUpperCase
              THEN splitWords(s, i + 1, Append(words, <<ToUpper(r)>>), FALSE)
              ELSE splitWords(s, i + 1,
                              [words EXCEPT ![Len(words)] = Append(@, r)], FALSE)
         ELSE splitWords(s, i + 1, words, TRUE)

\* faulty variant of forceCase: no break, the last matching word wins
RECURSIVE forceCase_lastMatch(_, _, _)
forceCase_lastMatch(word, forceCases, j) ==
    IF j > Len(forceCases) THEN word
    ELSE LET rest == forceCase_lastMatch(word, forceCases, j + 1) IN
         IF rest = word /\ EqualFold(word, forceCases[j])
         THEN forceCases[j] ELSE rest

\* the inner loop: the first force-case word equal to word under folding
RECURSIVE forceCase(_, _, _)
forceCase(word, forceCases, j) ==
    IF j > Len(forceCases) THEN word
    ELSE IF EqualFold(word, forceCases[j]) THEN forceCases[j]
    ELSE forceCase(word, forceCases, j + 1)

\* the second loop: result += word, after the force-case replacement
RECURSIVE joinWords(_, _, _)
joinWords(words, forceCases, k) ==
    IF k > Len(words) THEN <<>>
    ELSE forceCase(words[k], forceCases, 1) \o joinWords(words, forceCases, k + 1)

\* faulty variant of ensureExported: only the empty result gets the prefix
ensureExported_emptyOnly(result) ==
    IF result = <<>> THEN <<"E">> \o result ELSE result

\* the final test: "E" in front of an empty or non-upper-case start
ensureExported(result) ==
    IF result = <<>> \/ ~IsUpper(result[1]) THEN <<"E">> \o result ELSE result

convertToExportedIdentifier(s, forceCases) ==
    ensureExported(joinWords(splitWords(s, 1, <<>>, TRUE), forceCases, 1))

-----------------------------------------------------------------------------
(* ensureIdentifier, getTag, writeToFile *)

WordChars == LowerSet \cup UpperSet \cup DigitSet \cup {"_"}

\* nonIdentifierRegexp.ReplaceAllString(name, "_"): each rune outside
\* [0-9A-Za-z_] becomes "_"
replaceNonWord(name) ==
    [i \in 1..Len(name) |->
        IF name[i] \in WordChars THEN name[i] ELSE "_"]

ensureIdentifier(name) ==
    LET result == replaceNonWord(name) IN
    IF result = <<>> \/ result[1] \in DigitSet
    THEN <<"_">> \o result
    ELSE result

NoTag == [style |-> ""]

getTag(fieldDescriptor, opts) ==
    IF opts.tag = "gorm"
    THEN [style |-> "gorm", column |-> fieldDescriptor.Name]
    ELSE NoTag

RECURSIVE replaceNewlinesFrom(_, _)
replaceNewlinesFrom(str, i) ==
    IF i > Len(str) THEN ""
    ELSE (IF SubSeq(str, i, i) = "\n" THEN " " ELSE SubSeq(str, i, i))
            \o replaceNewlinesFrom(str, i + 1)

\* strings.ReplaceAll(fieldDescriptor.Comment, "\n", " ")
replaceNewlines(str) == replaceNewlinesFrom(str, 1)

\* files of the output directory
NoFile == [kind |-> "none"]
\* a file that was there before the run
OldFile == [kind |-> "old"]
\* a file opened with O_TRUNC whose WriteString failed part way
PartialFile == [kind |-> "partial"]
\* a file holding all of the rendered text
FullFile(text) == [kind |-> "full", text |-> text]

\* writeToFile: io.open is false when os.OpenFile fails, io.write is false
\* when f.WriteString fails, io.override is the answer typed at the prompt.
\* The result is the error returned and the file left at outputFile.
writeToFile(buffer, file, force, io) ==
    LET exists == file.kind # "none" IN
    IF exists /\ ~force /\ io.override \notin {"Y", "y"}
    THEN [err |-> NoErr, file |-> file]
    ELSE IF ~io.open
    THEN [err |-> [kind |-> "OpenFile"], file |-> file]
    ELSE IF ~io.write
    THEN [err |-> NoErr, file |-> PartialFile]
    ELSE [err |-> NoErr, file |-> FullFile(buffer)]

-----------------------------------------------------------------------------
(* The schema fetcher and generateTable *)

TableIndex(db, tableName) ==
    IF \E i \in 1..Len(db) : db[i].name = tableName
    THEN CHOOSE i \in 1..Len(db) : db[i].name = tableName
    ELSE 0

\* schemaFetcher.GetFieldDescriptors: the columns of the table in declared
\* order, no columns for a table the database does not hold, or the error
\* of a failed query
GetFieldDescriptors(db, tableName, queryOk) ==
    IF ~queryOk
    THEN [fieldDescriptors |-> <<>>, err |-> [kind |-> "GetFieldDescriptors"]]
    ELSE IF TableIndex(db, tableName) = 0
    THEN [fieldDescriptors |-> <<>>, err |-> NoErr]
    ELSE [fieldDescriptors |-> db[TableIndex(db, tableName)].columns,
          err |-> NoErr]

\* schemaFetcher.GetTableNames
GetTableNames(db) == [i \in 1..Len(db) |-> db[i].name]

\* the switch at the end of the field loop, on the declared type as reported
needsImportTime(fieldDescriptor) ==
    fieldDescriptor.Type \in {"datetime", "date", "time", "timestamp"}

\* one line of the struct: the comment line, then name, type and tag
fieldLine(fieldDescriptor, goType, opts) ==
    [comment |-> replaceNewlines(fieldDescriptor.Comment),
     goName |-> convertToExportedIdentifier(fieldDescriptor.Name, opts.forceCases),
     goType |-> goType,
     tag |-> getTag(fieldDescriptor, opts)]

\* faulty variant of renderFields: a column of unknown type is skipped
RECURSIVE renderFields_skipUnknown(_, _, _, _, _)
renderFields_skipUnknown(fieldDescriptors, i, opts, modeLines, isNeedImportTime) ==
    IF i > Len(fieldDescriptors)
    THEN [err |-> NoErr, modeLines |-> modeLines,
          isNeedImportTime |-> isNeedImportTime]
    ELSE LET fd == fieldDescriptors[i]
             t == getType(fd)
         IN  IF t.err.kind # "nil"
             THEN renderFields_skipUnknown(fieldDescriptors, i + 1, opts,
                                           modeLines, isNeedImportTime)
             ELSE renderFields_skipUnknown(fieldDescriptors, i + 1, opts,
                      Append(modeLines, fieldLine(fd, t.goType, opts)),
                      isNeedImportTime \/ needsImportTime(fd))

\* the loop of generateTable over the field descriptors
RECURSIVE renderFields(_, _, _, _, _)
renderFields(fieldDescriptors, i, opts, modeLines, isNeedImportTime) ==
    IF i > Len(fieldDescriptors)
    THEN [err |-> NoErr, modeLines |-> modeLines,
          isNeedImportTime |-> isNeedImportTime]
    ELSE LET fd == fieldDescriptors[i]
             t == getType(fd)
         IN  IF t.err.kind # "nil"
             THEN [err |-> t.err, modeLines |-> modeLines,
                   isNeedImportTime |-> isNeedImportTime]
             ELSE renderFields(fieldDescriptors, i + 1, opts,
                      Append(modeLines, fieldLine(fd, t.goType, opts)),
                      isNeedImportTime \/ needsImportTime(fd))

\* faulty variant of accessorLiteral: the struct name is returned
accessorLiteral_className(className, tableName) == className

\* the literal TableName() returns
accessorLiteral(className, tableName) == tableName

\* the text of the file, part by part in the order written to the buffer
renderedText(databaseName, table, className, rendered) ==
    [package |-> ensureIdentifier(databaseName),
     importTime |-> rendered.isNeedImportTime,
     className |-> className,
     fields |-> rendered.modeLines,
     accessor |-> accessorLiteral(className, table)]

\* generateTable: the error returned and the file left at <outputPath>/<tableName>.go
generateTable(db, databaseName, tableName, opts, file, io) ==
    LET fetched == GetFieldDescriptors(db, tableName, io.query) IN
    IF fetched.err.kind # "nil"
    THEN [err |-> fetched.err, file |-> file]
    ELSE LET className == convertToExportedIdentifier(tableName, opts.forceCases)
             rendered == renderFields(fetched.fieldDescriptors, 1, opts, <<>>, FALSE)
         IN  IF rendered.err.kind # "nil"
             THEN [err |-> rendered.err, file |-> file]
             ELSE writeToFile(renderedText(databaseName, tableName, className, rendered),
                              file, TRUE, io)

-----------------------------------------------------------------------------
(* The entry points, getSchemaFetcherFactory and Generate *)

EntryPoints == {"sqlm-gen-mysql", "sqlm-gen-postgres", "sqlm-gen-sqlite3"}

\* the driver key each main passes to generator.Generate
mainDriverName(entryPoint) ==
    CASE entryPoint = "sqlm-gen-mysql" -> "mysql"
      [] entryPoint = "sqlm-gen-postgres" -> "postgres"
      [] entryPoint = "sqlm-gen-sqlite3" -> "mysql"

\* the fetcher constructor selected, or "os.Exit(2)"
getSchemaFetcherFactory(driver) ==
    CASE driver = "mysql" -> "newMySQLSchemaFetcher"
      [] driver = "sqlite3" -> "newSQLite3SchemaFetcher"
      [] driver = "postgres" -> "newPostgresSchemaFetcher"
      [] OTHER -> "os.Exit(2)"

\* strings.Split(s, ",") on a rune sequence
RECURSIVE splitFrom(_, _, _, _)
splitFrom(s, i, current, parts) ==
    IF i > Len(s) THEN Append(parts, current)
    ELSE IF s[i] = "," THEN splitFrom(s, i + 1, <<>>, Append(parts, current))
    ELSE splitFrom(s, i + 1, Append(current, s[i]), parts)

Split(s) == splitFrom(s, 1, <<>>, <<>>)

\* the options value built from the flags
parseOptions(f) ==
    [tableNames |-> IF Len(f.t) # 0 THEN Split(f.t) ELSE <<>>,
     tag |-> f.tag,
     forceCases |-> IF Len(f.forcecases) # 0 THEN Split(f.forcecases) ELSE <<>>]

\* faulty variant of afterTable: the loop goes on after a failed table
afterTable_continue(e) == "loop"

\* where the range loop of Generate goes after generateTable returned e
afterTable(e) == IF e.kind # "nil" THEN "done" ELSE "loop"

-----------------------------------------------------------------------------
(* The state of a run that has not started: the value of the run's         *)
(* variables in the specifications that only apply a pure function.        *)

NoCall == [fn |-> "none"]
Pending == [state |-> "pending"]
Returned(value) == [state |-> "returned", value |-> value]
NoFlags == [t |-> <<>>, tag |-> "", forcecases |-> <<>>]
NoOptions == [tableNames |-> <<>>, tag |-> "", forceCases |-> <<>>]

RunIdle ==
    /\ caller = "none"
    /\ flags = NoFlags
    /\ dbName = <<>>
    /\ driverName = ""
    /\ pc = "idle"
    /\ options = NoOptions
    /\ schema = <<>>
    /\ fetcher = "none"
    /\ idx = 0
    /\ err = NoErr
    /\ fs = <<>>
    /\ fs0 = <<>>
    /\ log = <<>>

\* all sequences over S of length at most n
BoundedSeq(S, n) == UNION {[1..k -> S] : k \in 0..n}

-----------------------------------------------------------------------------
(* SpecType: getType applied to one field descriptor. *)

\* the declared types getType's switch names
SupportedTypes ==
    {"tinyint", "smallint", "int", "mediumint", "bigint", "integer",
     "float", "double", "decimal", "real",
     "char", "varchar", "text", "tinytext", "mediumtext", "longtext", "enum",
     "json", "numeric", "character varying",
     "datetime", "date", "time", "timestamp",
     "binary", "varbinary", "blob", "tinyblob", "mediumblob", "longblob",
     "geometry", "point", "linestring", "polygon", "multipoint",
     "multilinestring", "multipolygon", "geometrycollection",
     "bit"}

RECURSIVE UpperFrom(_, _)
UpperFrom(str, i) ==
    IF i > Len(str) THEN ""
    ELSE ToUpper(SubSeq(str, i, i)) \o UpperFrom(str, i + 1)

\* a supported type as an engine may report it: upper case, or capitalised
UpperCased(str) == UpperFrom(str, 1)
Capitalised(str) == ToUpper(SubSeq(str, 1, 1)) \o SubSeq(str, 2, Len(str))

\* declared types outside the switch
UnsupportedTypes ==
    {"", "uuid", "boolean", "interval", "year", "set", "varchar(255)",
     "int unsigned", "tinyint(1)", "INT4", "datetime2", " int"}

DeclaredTypes ==
    SupportedTypes
      \cup {UpperCased(t) : t \in SupportedTypes}
      \cup {Capitalised(t) : t \in SupportedTypes}
      \cup UnsupportedTypes

InitType ==
    /\ call \in [fn : {"getType"},
                 fieldDescriptor : [Name : {Runes("c")},
                                    Type : DeclaredTypes,
                                    Size : 0..MaxSize,
                                    Unsigned : BOOLEAN,
                                    AllowNull : BOOLEAN,
                                    Comment : {""}]]
    /\ ret = Pending
    /\ RunIdle

CallGetType ==
    /\ call.fn = "getType"
    /\ ret.state = "pending"
    /\ ret' = Returned(getType(call.fieldDescriptor))
    /\ UNCHANGED <<call, runVars>>

NextType == CallGetType

SpecType == InitType /\ [][NextType]_vars

-----------------------------------------------------------------------------
(* SpecIdent: convertToExportedIdentifier applied to one raw name and one  *)
(* force-case list.                                                        *)

\* runes of the enumerated names: lower and upper ASCII letters, a digit, a
\* separator, a non-ASCII letter with an upper case, one without
NameAlphabet == {"i", "D", "2", "_", "U+03B9", "U+4E2D"}

\* force-case words: an acronym, its lower case, and a word of one rune that
\* is no letter and folds with a letter
ForceWords == {Runes("ID"), Runes("id"), <<"U+0345">>}

ExampleNames ==
    {Runes("user_id"), Runes("html_content"), Runes("2fa_token"),
     Runes("order-items"), Runes("k"), <<"U+0663", "x">>}

RawNames == BoundedSeq(NameAlphabet, MaxLen) \cup ExampleNames

ForceCaseLists ==
    BoundedSeq(ForceWords, MaxForce)
      \cup {<<Runes("HTML")>>, <<Runes("i_d")>>, <<<<"U+212A">>>>}

InitIdent ==
    /\ call \in [fn : {"convertToExportedIdentifier"},
                 s : RawNames,
                 forceCases : ForceCaseLists]
    /\ ret = Pending
    /\ RunIdle

CallConvert ==
    /\ call.fn = "convertToExportedIdentifier"
    /\ ret.state = "pending"
    /\ ret' = Returned(convertToExportedIdentifier(call.s, call.forceCases))
    /\ UNCHANGED <<call, runVars>>

NextIdent == CallConvert

SpecIdent == InitIdent /\ [][NextIdent]_vars

-----------------------------------------------------------------------------
(* Spec: one run of an entry point, or of a program that calls Generate.   *)

Column(name, type, size, unsigned, allowNull, comment) ==
    [Name |-> Runes(name), Type |-> type, Size |-> size, Unsigned |-> unsigned,
     AllowNull |-> allowNull, Comment |-> comment]

\* users (id INT NOT NULL, name VARCHAR NULL, created_at DATETIME NOT NULL)
UsersTable ==
    [name |-> Runes("users"),
     columns |-> << Column("id", "INT", 11, FALSE, FALSE, "primary\nkey"),
                    Column("name", "VARCHAR", 255, FALSE, TRUE, ""),
                    Column("created_at", "DATETIME", 0, FALSE, FALSE, "") >>]

\* the columns the second table is made of
ColumnPool ==
    { Column("placed_at", "timestamp", 0, FALSE, TRUE, ""),
      Column("ref", "uuid", 0, FALSE, FALSE, "") }

\* the column lists of the second table: any columns of the pool, in any
\* order, each at most once
ColumnLists ==
    { c \in BoundedSeq(ColumnPool, Cardinality(ColumnPool)) :
        \A i, j \in 1..Len(c) : c[i] = c[j] => i = j }

Schemas ==
    { << UsersTable, [name |-> Runes("order_items"), columns |-> c] >> :
        c \in ColumnLists }

\* the table names a -t list is made of; the database holds no table ghost
TableNamePool == {Runes("users"), Runes("order_items"), Runes("ghost")}

RECURSIVE JoinFrom(_, _)
JoinFrom(list, i) ==
    IF i > Len(list) THEN <<>>
    ELSE (IF i > 1 THEN <<",">> ELSE <<>>) \o list[i] \o JoinFrom(list, i + 1)

\* a comma-separated flag value
Join(list) == JoinFrom(list, 1)

CommandLines ==
    [t : {Join(l) : l \in BoundedSeq(TableNamePool, MaxTables)},
     tag : {"", "gorm"},
     forcecases : {<<>>, Runes("ID,HTML")}]

\* the driver keys a program other than the entry points passes to Generate
LibraryDriverNames == {"sqlserver"}

\* what the fetcher reports as database name
DatabaseNames == {<<>>, Runes("shop-db")}

Init ==
    /\ call = NoCall
    /\ ret = Pending
    /\ caller \in EntryPoints \cup {"library"}
    /\ flags \in CommandLines
    /\ driverName = ""
    /\ pc = "main"
    /\ options = NoOptions
    /\ schema \in Schemas
    /\ dbName = <<>>
    /\ fetcher = "none"
    /\ idx = 0
    /\ err = NoErr
    /\ fs0 \in {[t \in TableNamePool |-> NoFile], [t \in TableNamePool |-> OldFile]}
    /\ fs = fs0
    /\ log = <<>>

\* main of an entry point calls generator.Generate with its driver key
Main ==
    /\ pc = "main"
    /\ caller \in EntryPoints
    /\ driverName' = mainDriverName(caller)
    /\ pc' = "Generate"
    /\ UNCHANGED <<call, ret, caller, flags, options, schema, dbName, fetcher,
                   idx, err, fs, fs0, log>>

\* another program calls generator.Generate with a driver key of its own
LibraryCall ==
    /\ pc = "main"
    /\ caller = "library"
    /\ driverName' \in LibraryDriverNames
    /\ pc' = "Generate"
    /\ UNCHANGED <<call, ret, caller, flags, options, schema, dbName, fetcher,
                   idx, err, fs, fs0, log>>

\* Generate up to its range loop.  in.o and in.dbc: -o and -dbc are given;
\* in.open: sql.Open succeeds; in.name: the result of GetDatabaseName;
\* in.tables: GetTableNames succeeds.
generateUntilLoop(f, driver, db, in) ==
    LET opts == parseOptions(f)
        factory == getSchemaFetcherFactory(driver)
        stop(at, e, fetch, name) ==
            [pc |-> at, err |-> e, options |-> opts, fetcher |-> fetch,
             dbName |-> name]
    IN  IF ~in.o \/ ~in.dbc
        THEN [pc |-> "os.Exit(1)", err |-> NoErr, options |-> NoOptions,
              fetcher |-> "none", dbName |-> <<>>]
        ELSE IF ~in.open
        THEN stop("done", [kind |-> "sql.Open"], "none", <<>>)
        ELSE IF factory = "os.Exit(2)"
        THEN stop("os.Exit(2)", NoErr, "none", <<>>)
        ELSE IF ~in.name.ok
        THEN stop("done", [kind |-> "GetDatabaseName"], factory, <<>>)
        ELSE IF in.name.value = <<>>
        THEN stop("done", [kind |-> "no database selected"], factory, <<>>)
        ELSE IF Len(opts.tableNames) = 0 /\ ~in.tables
        THEN stop("done", [kind |-> "GetTableNames"], factory, in.name.value)
        ELSE [pc |-> "loop", err |-> NoErr,
              options |-> IF Len(opts.tableNames) = 0
                          THEN [opts EXCEPT !.tableNames = GetTableNames(db)]
                          ELSE opts,
              fetcher |-> factory, dbName |-> in.name.value]

GenerateStart ==
    /\ pc = "Generate"
    /\ \E in \in [o : BOOLEAN, dbc : BOOLEAN, open : BOOLEAN,
                  name : [ok : BOOLEAN, value : DatabaseNames],
                  tables : BOOLEAN] :
        LET r == generateUntilLoop(flags, driverName, schema, in) IN
        /\ pc' = r.pc
        /\ err' = r.err
        /\ options' = r.options
        /\ fetcher' = r.fetcher
        /\ dbName' = r.dbName
        /\ idx' = IF r.pc = "loop" THEN 1 ELSE idx
    /\ UNCHANGED <<call, ret, caller, flags, driverName, schema, fs, fs0, log>>

\* what the I/O of one generateTable call does: the query fails, os.OpenFile
\* fails, f.WriteString fails, or nothing fails
IoOutcomes ==
    { [query |-> FALSE, open |-> TRUE, write |-> TRUE, override |-> "n"],
      [query |-> TRUE, open |-> FALSE, write |-> TRUE, override |-> "n"],
      [query |-> TRUE, open |-> TRUE, write |-> FALSE, override |-> "n"],
      [query |-> TRUE, open |-> TRUE, write |-> TRUE, override |-> "n"] }

\* one iteration of the range loop: generateTable for options.tableNames[idx]
GenerateTable ==
    /\ pc = "loop"
    /\ idx <= Len(options.tableNames)
    /\ \E io \in IoOutcomes :
        LET tableName == options.tableNames[idx]
            r == generateTable(schema, dbName, tableName, options,
                               fs[tableName], io)
        IN  /\ fs' = [fs EXCEPT ![tableName] = r.file]
            /\ log' = Append(log, [table |-> tableName, err |-> r.err,
                                   file |-> r.file])
            /\ err' = r.err
            /\ pc' = afterTable(r.err)
            /\ idx' = idx + 1
    /\ UNCHANGED <<call, ret, caller, flags, driverName, options, schema,
                   dbName, fetcher, fs0>>

\* the loop is over: return err
GenerateReturn ==
    /\ pc = "loop"
    /\ idx > Len(options.tableNames)
    /\ pc' = "done"
    /\ UNCHANGED <<call, ret, caller, flags, driverName, options, schema,
                   dbName, fetcher, idx, err, fs, fs0, log>>

\* main after Generate returned: panic(err) when err is not nil
MainReturn ==
    /\ pc = "done"
    /\ caller \in EntryPoints
    /\ pc' = IF err.kind # "nil" THEN "panic" ELSE "exit(0)"
    /\ UNCHANGED <<call, ret, caller, flags, driverName, options, schema,
                   dbName, fetcher, idx, err, fs, fs0, log>>

Next ==
    \/ Main
    \/ LibraryCall
    \/ GenerateStart
    \/ GenerateTable
    \/ GenerateReturn
    \/ MainReturn

Spec == Init /\ [][Next]_vars

\* Generate has returned to its caller
HasReturned == pc \in {"done", "panic", "exit(0)"}

-----------------------------------------------------------------------------
(* Properties of getType (under SpecType). *)

IntegerHostTypes == {"int8", "int16", "int32", "int64"}

\* the documented host type of a supported declared type
DocumentedHostType(t, size) ==
    CASE t = "tinyint" -> "int8"
      [] t = "smallint" -> "int16"
      [] t \in {"int", "mediumint"} -> "int32"
      [] t \in {"bigint", "integer"} -> "int64"
      [] t \in {"float", "double", "decimal", "real"} -> "float64"
      [] t \in {"datetime", "date", "time", "timestamp"} -> "time.Time"
      [] t \in {"geometry", "point", "linestring", "polygon", "multipoint",
                "multilinestring", "multipolygon", "geometrycollection"}
            -> "sqlingo.WellKnownBinary"
      [] t = "bit" -> IF size = 1 THEN "bool" ELSE "string"
      [] OTHER -> "string"

\* the documented result: "*" outermost iff nullable, "u" iff unsigned integer
DocumentedResult(fd, t) ==
    LET host == DocumentedHostType(t, fd.Size) IN
    (IF fd.AllowNull THEN "*" ELSE "")
      \o (IF fd.Unsigned /\ host \in IntegerHostTypes THEN "u" ELSE "")
      \o host

\* C1: for every field descriptor whose declared type is, case-insensitively,
\* a supported type, getType returns no error and the documented host type,
\* with the "u" prefix iff Unsigned is set and the type is an integer type and
\* the "*" prefix, outermost, iff AllowNull is set.
C1_TypeMapping ==
    (call.fn = "getType" /\ ret.state = "returned") =>
        \A t \in SupportedTypes :
            EqualFold(Runes(call.fieldDescriptor.Type), Runes(t)) =>
                /\ ret.value.err = NoErr
                /\ ret.value.goType = DocumentedResult(call.fieldDescriptor, t)

\* a nullable unsigned BIGINT column, reported in upper case, mapped to *uint64
C1_Witness ==
    /\ call.fn = "getType"
    /\ ret.state = "returned"
    /\ call.fieldDescriptor.Type = "BIGINT"
    /\ call.fieldDescriptor.Unsigned
    /\ call.fieldDescriptor.AllowNull
    /\ ret.value.goType = "*uint64"

-----------------------------------------------------------------------------
(* Properties of convertToExportedIdentifier (under SpecIdent). *)

IsAlnum(r) == IsLetter(r) \/ IsDigit(r)
IsASCIIAlnum(r) == IsASCII(r) /\ IsAlnum(r)
AllAlnum(s) == \A i \in 1..Len(s) : IsAlnum(s[i])
AllASCIIAlnum(s) == \A i \in 1..Len(s) : IsASCIIAlnum(s[i])

Converted ==
    call.fn = "convertToExportedIdentifier" /\ ret.state = "returned"

\* C2 (as stated): for every raw name and force-case list the output is
\* non-empty, made of ASCII letters and digits only, and begins with an
\* upper-case letter.
C2_AsciiIdentifier ==
    Converted =>
        /\ ret.value # <<>>
        /\ AllASCIIAlnum(ret.value)
        /\ IsUpper(ret.value[1])

\* C2 (amended): the output is non-empty and begins with an upper-case letter;
\* it is made of letters and digits only when the force-case words are; and
\* those are ASCII when the raw name and the force-case words hold no
\* non-ASCII letter or digit.
C2_ExportedIdentifier ==
    Converted =>
        LET wordsAlnum ==
                \A j \in 1..Len(call.forceCases) :
                    AllAlnum(call.forceCases[j])
            inputASCII ==
                /\ \A i \in 1..Len(call.s) :
                       IsAlnum(call.s[i]) => IsASCII(call.s[i])
                /\ \A j \in 1..Len(call.forceCases) :
                       AllASCIIAlnum(call.forceCases[j])
        IN  /\ ret.value # <<>>
            /\ IsUpper(ret.value[1])
            /\ wordsAlnum => AllAlnum(ret.value)
            /\ inputASCII => AllASCIIAlnum(ret.value)

\* a name that starts with a digit and holds a non-ASCII letter
C2_Witness ==
    /\ Converted
    /\ call.s = <<"2", "_", "U+03B9">>
    /\ call.forceCases = <<Runes("ID")>>
    /\ ret.value = <<"E", "2", "U+0399">>

\* The reference normalizer: the maximal runs of letters and digits, each
\* capitalised and replaced by the first force-case word it equals under
\* folding, concatenated, with "E" in front of an empty or non-upper start.
RunStarts(s) ==
    {i \in 1..Len(s) : IsAlnum(s[i]) /\ (i = 1 \/ ~IsAlnum(s[i - 1]))}

RunEnd(s, i) ==
    CHOOSE j \in i..Len(s) :
        /\ \A k \in i..j : IsAlnum(s[k])
        /\ (j = Len(s) \/ ~IsAlnum(s[j + 1]))

RefWord(s, i, forceCases) ==
    LET run == SubSeq(s, i, RunEnd(s, i))
        cap == <<ToUpper(run[1])>> \o Tail(run)
        hits == {j \in 1..Len(forceCases) : EqualFold(cap, forceCases[j])}
    IN  IF hits = {} THEN cap
        ELSE forceCases[CHOOSE j \in hits : \A h \in hits : j <= h]

RECURSIVE RefConcat(_, _, _)
RefConcat(s, starts, forceCases) ==
    IF starts = {} THEN <<>>
    ELSE LET i == CHOOSE m \in starts : \A n \in starts : m <= n IN
         RefWord(s, i, forceCases) \o RefConcat(s, starts \ {i}, forceCases)

RefNormalize(s, forceCases) ==
    LET body == RefConcat(s, RunStarts(s), forceCases) IN
    IF body = <<>> \/ ~IsUpper(Head(body)) THEN <<"E">> \o body ELSE body

\* C3: convertToExportedIdentifier equals the reference normalizer; in
\* particular ("user_id", ["ID"]) gives "UserID", ("html_content", ["HTML"])
\* gives "HTMLContent" and ("2fa_token", []) gives "E2faToken".
C3_EqualsReference ==
    Converted =>
        /\ ret.value = RefNormalize(call.s, call.forceCases)
        /\ (call.s = Runes("user_id") /\ call.forceCases = <<Runes("ID")>>)
               => ret.value = Runes("UserID")
        /\ (call.s = Runes("html_content") /\ call.forceCases = <<Runes("HTML")>>)
               => ret.value = Runes("HTMLContent")
        /\ (call.s = Runes("2fa_token") /\ call.forceCases = <<>>)
               => ret.value = Runes("E2faToken")

\* "user_id" converted with the force-case list ["id", "ID"]: the first wins
C3_Witness ==
    /\ Converted
    /\ call.s = Runes("user_id")
    /\ call.forceCases = <<Runes("id"), Runes("ID")>>
    /\ ret.value = Runes("Userid")

-----------------------------------------------------------------------------
(* Properties of generateTable and Generate (under Spec). *)

Users == Runes("users")
OrderItems == Runes("order_items")
Ghost == Runes("ghost")

\* the columns the database holds for a table, none for a table it lacks
ColumnsOf(t) ==
    IF \E i \in 1..Len(schema) : schema[i].name = t
    THEN schema[CHOOSE i \in 1..Len(schema) : schema[i].name = t].columns
    ELSE <<>>

InSchema(t) == \E i \in 1..Len(schema) : schema[i].name = t

IsSupported(type) == \E t \in SupportedTypes : EqualFold(Runes(type), Runes(t))

\* the declared types of the columns, in order, that are not supported
UnknownTypesOf(columns) ==
    SelectSeq([i \in 1..Len(columns) |-> columns[i].Type],
              LAMBDA type : ~IsSupported(type))

\* C4: a fully written file of a table holds a struct with one field per
\* descriptor, in the order of the descriptors, the i-th named by the
\* normalized name and typed by getType's result of the i-th descriptor, and
\* an accessor that returns the table name verbatim; for users the fields are
\* int32, *string, time.Time and the accessor returns "users".
C4_RenderedStruct ==
    \A t \in TableNamePool :
        fs[t].kind = "full" =>
            LET d == ColumnsOf(t)
                text == fs[t].text
            IN  /\ Len(text.fields) = Len(d)
                /\ \A i \in 1..Len(d) :
                       /\ text.fields[i].goName
                            = convertToExportedIdentifier(d[i].Name, options.forceCases)
                       /\ getType(d[i]).err = NoErr
                       /\ text.fields[i].goType = getType(d[i]).goType
                /\ text.accessor = t
                /\ t = Users =>
                       /\ [i \in 1..3 |-> text.fields[i].goType]
                            = <<"int32", "*string", "time.Time">>
                       /\ text.fields[1].goName \in {Runes("Id"), Runes("ID")}
                       /\ text.fields[2].goName = Runes("Name")
                       /\ text.fields[3].goName = Runes("CreatedAt")
                       /\ text.accessor = Runes("users")
                       /\ text.className = Runes("Users")

\* users and a one-column order_items are both written in one run, with
\* the force-case list ID,HTML
C4_Witness ==
    /\ HasReturned
    /\ fs[Users].kind = "full"
    /\ fs[OrderItems].kind = "full"
    /\ Len(fs[OrderItems].text.fields) = 1
    /\ options.forceCases = <<Runes("ID"), Runes("HTML")>>

\* C5: getType fails on every unsupported declared type with an error that
\* names it; a generateTable call on a table with such a column returns that
\* error (or the error of the failed query) and leaves every file as it was;
\* Generate returns it at once, and nothing is rendered after it returned.
C5_UnknownTypeAborts ==
    /\ [](\A type \in UnsupportedTypes :
            getType(Column("c", type, 0, FALSE, FALSE, "")).err
                = UnknownFieldType(type))
    /\ [][ (/\ pc = "loop"
            /\ idx <= Len(options.tableNames)
            /\ UnknownTypesOf(ColumnsOf(options.tableNames[idx])) # <<>>)
           => /\ fs' = fs
              /\ pc' = "done"
              /\ Len(log') = Len(log) + 1
              /\ err'.kind \in {"GetFieldDescriptors", "unknown field type"}
              /\ err'.kind = "unknown field type" =>
                    err'.type
                      = Head(UnknownTypesOf(ColumnsOf(options.tableNames[idx]))) ]_vars
    /\ [][ HasReturned => UNCHANGED <<fs, log, err>> ]_vars

\* Generate returned the error of the uuid column of order_items, whose file
\* from before the run is untouched
C5_Witness ==
    /\ HasReturned
    /\ err.kind = "unknown field type"
    /\ err.type = "uuid"
    /\ fs0[OrderItems] = OldFile
    /\ fs[OrderItems] = OldFile
    /\ Len(log) = 2

\* the file of table t after the calls logged so far
RECURSIVE FileAfter(_, _)
FileAfter(t, n) ==
    IF n = 0 THEN fs0[t]
    ELSE IF log[n].table = t THEN log[n].file
    ELSE FileAfter(t, n - 1)

\* C6: the tables rendered are those of the explicit list when one is given
\* and all tables of the database otherwise, one at a time in list order; the
\* first failed render ends the run with that error, no later table is
\* rendered or written, and the files written before stay as written.
C6_StopsAtFirstError ==
    /\ (pc = "loop" \/ log # <<>>) =>
          IF flags.t # <<>>
          THEN \E l \in BoundedSeq(TableNamePool, MaxTables) :
                  Join(l) = flags.t /\ options.tableNames = l
          ELSE options.tableNames = [i \in 1..Len(schema) |-> schema[i].name]
    /\ Len(log) <= Len(options.tableNames)
    /\ \A i \in 1..Len(log) : log[i].table = options.tableNames[i]
    /\ \A i \in 1..(Len(log) - 1) : log[i].err = NoErr
    /\ pc = "loop" => idx = Len(log) + 1
    /\ (log # <<>> /\ log[Len(log)].err # NoErr) =>
          HasReturned /\ err = log[Len(log)].err
    /\ \A t \in TableNamePool : fs[t] = FileAfter(t, Len(log))

\* users was written, then order_items failed: users' file stays
C6_Witness ==
    /\ HasReturned
    /\ Len(log) = 2
    /\ Len(options.tableNames) = 2
    /\ log[1].table = Users
    /\ log[1].file.kind = "full"
    /\ log[2].err # NoErr
    /\ fs[Users].kind = "full"

\* C7: a generateTable call for a table the database does not hold returns
\* an error and leaves the table's file as it was, and no file holds a struct
\* without fields.
C7_MissingTableFails ==
    /\ \A i \in 1..Len(log) :
          ~InSchema(log[i].table) =>
              /\ log[i].err # NoErr
              /\ log[i].file = FileAfter(log[i].table, i - 1)
    /\ \A t \in TableNamePool :
          fs[t].kind = "full" => fs[t].text.fields # <<>>

\* the engine an entry point is named after
EngineKey(entryPoint) ==
    CASE entryPoint = "sqlm-gen-mysql" -> "mysql"
      [] entryPoint = "sqlm-gen-postgres" -> "postgres"
      [] entryPoint = "sqlm-gen-sqlite3" -> "sqlite3"

EngineFetcher(key) ==
    CASE key = "mysql" -> "newMySQLSchemaFetcher"
      [] key = "postgres" -> "newPostgresSchemaFetcher"
      [] key = "sqlite3" -> "newSQLite3SchemaFetcher"

\* C8: every entry point passes the key of its own engine and runs with the
\* fetcher of that engine; a key that is none of the three selects no fetcher
\* and the run never reaches the tables.
C8_EntryPointEngine ==
    /\ (caller \in EntryPoints /\ pc # "main") =>
          /\ driverName = EngineKey(caller)
          /\ fetcher # "none" => fetcher = EngineFetcher(EngineKey(caller))
    /\ (pc # "main" /\ driverName \notin {"mysql", "postgres", "sqlite3"}) =>
          fetcher = "none" /\ pc \in {"Generate", "done", "os.Exit(1)", "os.Exit(2)"}

\* C9: a fully written file holds the import of "time" iff one of its fields
\* is typed time.Time or *time.Time.
C9_ImportIffTimeField ==
    \A t \in TableNamePool :
        fs[t].kind = "full" =>
            (fs[t].text.importTime
               <=> \E i \in 1..Len(fs[t].text.fields) :
                       fs[t].text.fields[i].goType \in {"time.Time", "*time.Time"})

\* C10: when Generate returns no error, the file of every table of the list
\* holds all of its rendered text (the overwrite is forced, never declined).
C10_WriteFailureSurfaced ==
    (HasReturned /\ err = NoErr) =>
        \A i \in 1..Len(options.tableNames) :
            fs[options.tableNames[i]].kind = "full"

=============================================================================
